---- MODULE Spec2Model ----
(***************************************************************************)
(* A model of nf_core/create.py (class PipelineCreate): parameter          *)
(* resolution (create_param_dict, get_param, the prompts), template        *)
(* materialisation (render_template, make_pipeline_logo) and the logo      *)
(* download retry loop (download_pipeline_logo).                           *)
(*                                                                         *)
(* A Python str is a sequence of one-character strings, so that lower(),   *)
(* replace() and the regular expressions are computed character by         *)
(* character.  A file-system path is a sequence of path fragments; the     *)
(* ignore markers of render_template are fragments of their own, so that   *)
(* Python's  s in path  is membership of the fragment in the sequence.     *)
(***************************************************************************)
EXTENDS Integers, Sequences, FiniteSets, TLC

VARIABLES
    passed,             \* the arguments of __init__: name, description, author, version
    template_yaml_path, \* TRUE when a template YAML path was given (not None)
    template_yaml,      \* the dict template_yaml of create_param_dict
    force,              \* self.force
    outdir_existed,     \* os.path.exists(self.outdir) when render_template starts
    outdir_exists,      \* whether self.outdir exists now
    template_dir,       \* the path of the pipeline-template directory
    pc,                 \* position of the run
    exc,                \* class of the exception that ended the run, or "none"
    raised_in,          \* the function the exception escaped from, or "none"
    resolved,           \* what get_param returned for name, description, author
    prompt_ret,         \* what each prompt returned (None when it was not asked)
    template_params,    \* self.template_params
    warned,             \* the --force warning of render_template was logged
    idx,                \* index in template_files of the next entry of the walk
    output,             \* files written under self.outdir: path -> [how, src, mode]
    ignored,            \* indices of the entries the ignore filter skipped
    last_kind,          \* how the entry processed last was classified
    fetches,            \* the logo files download_pipeline_logo was called for
    fpc,                \* position of download_pipeline_logo
    attempt,            \* its local attempt
    retry_delay,        \* its local retry_delay
    requests,           \* number of requests.get calls issued
    img_file,           \* content of the file img_fn
    nfail,              \* number of attempts that failed
    nlogged,            \* number of attempts whose failure was logged
    succ_body           \* body of the attempt that broke the loop, or "none"

run_vars == <<passed, template_yaml_path, template_yaml, force, outdir_existed,
              outdir_exists, template_dir, pc, exc, raised_in, resolved,
              prompt_ret, template_params, warned, idx, output, ignored,
              last_kind, fetches>>
fetch_vars == <<fpc, attempt, retry_delay, requests, img_file, nfail, nlogged,
                succ_body>>
vars == <<run_vars, fetch_vars>>

---------------------------------------------------------------------------
(* Bounds of the model *)

\* longest name drawn for the name argument
MaxNameLen == 2
\* most answers a user gives to one validating prompt
MaxPrompts == 2

---------------------------------------------------------------------------
(* Python values *)

None == <<"<None>">>
KeyError == <<"<KeyError>">>
EmptyDict == [k \in {} |-> None]

Str(S, n) == UNION {[1..k -> S] : k \in 0..n}

LowerLetters == <<"a","b","c","d","e","f","g","h","i","j","k","l","m",
                  "n","o","p","q","r","s","t","u","v","w","x","y","z">>
UpperLetters == <<"A","B","C","D","E","F","G","H","I","J","K","L","M",
                  "N","O","P","Q","R","S","T","U","V","W","X","Y","Z">>
Digits == {"0","1","2","3","4","5","6","7","8","9"}
Range(f) == {f[i] : i \in DOMAIN f}

\* str.lower() and str.upper() on one character
lower_char(c) ==
    IF c \in Range(UpperLetters)
    THEN LowerLetters[CHOOSE i \in DOMAIN UpperLetters : UpperLetters[i] = c]
    ELSE c
upper_char(c) ==
    IF c \in Range(LowerLetters)
    THEN UpperLetters[CHOOSE i \in DOMAIN LowerLetters : LowerLetters[i] = c]
    ELSE c
lower(s) == [i \in 1..Len(s) |-> lower_char(s[i])]

\* str.replace(old, new): every non-overlapping occurrence, left to right
RECURSIVE replace(_, _, _)
replace(s, old, new) ==
    IF Len(old) = 0
    THEN IF Len(s) = 0 THEN new
         ELSE new \o <<Head(s)>> \o replace(Tail(s), old, new)
    ELSE IF Len(s) < Len(old) THEN s
    ELSE IF SubSeq(s, 1, Len(old)) = old
         THEN new \o replace(SubSeq(s, Len(old) + 1, Len(s)), old, new)
         ELSE <<Head(s)>> \o replace(Tail(s), old, new)

\* re.match(r"^[a-z]+$", s)
match_wf_name(s) ==
    /\ Len(s) > 0
    /\ \A i \in 1..Len(s) : s[i] \in Range(LowerLetters)

\* re.match(r"^[a-zA-Z_][a-zA-Z0-9-_]*$", s)
match_prefix(s) ==
    /\ Len(s) > 0
    /\ s[1] \in Range(LowerLetters) \cup Range(UpperLetters) \cup {"_"}
    /\ \A i \in 2..Len(s) :
          s[i] \in Range(LowerLetters) \cup Range(UpperLetters) \cup Digits
                   \cup {"-", "_"}

---------------------------------------------------------------------------
(* Inputs *)

NameAlphabet == {"a", "B", "1", "/"}
NameInputs == Str(NameAlphabet, MaxNameLen)
CanonicalPrefix == <<"n","f","-","c","o","r","e">>
PrefixInputs == {CanonicalPrefix, <<"a">>, <<"1","a">>}
DefaultVersion == <<"1",".","0","d","e","v">>
CliText == <<"c","l","i">>
YamlText == <<"y","m","l">>
PromptText == <<"a","s","k">>
YamlNames == {<<"a">>, <<"B","1">>}
YamlVersion == <<"2">>
Areas == {"ci", "github_badges", "igenomes"}
ScalarFields == {"name", "description", "author"}

Restrict(f, D) == [k \in D |-> f[k]]

YamlKeys == {"name", "description", "author", "version", "prefix", "skip"}

\* the documents yaml.safe_load can return that define a subset of keys
YamlDocsOver(names, prefixes, skips, keys) ==
    {Restrict(full, D) :
        full \in [name : names, description : {YamlText}, author : {YamlText},
                  version : {YamlVersion}, prefix : prefixes, skip : skips],
        D \in SUBSET keys}

\* the answers a user types at a validating prompt, the last one accepted
AnswerSeqs(S) == UNION {[1..k -> S] : k \in 1..MaxPrompts}

---------------------------------------------------------------------------
(* Parameter resolution *)

\* prompt_wf_name: asks again until the answer matches; None while it still asks
RECURSIVE prompt_wf_name(_)
prompt_wf_name(answers) ==
    IF answers = <<>> THEN None
    ELSE IF match_wf_name(Head(answers)) THEN Head(answers)
    ELSE prompt_wf_name(Tail(answers))

\* the prefix loop of customize_template
RECURSIVE prompt_prefix(_)
prompt_prefix(answers) ==
    IF answers = <<>> THEN None
    ELSE IF match_prefix(Head(answers)) THEN Head(answers)
    ELSE prompt_prefix(Tail(answers))

\* customize_template: the dict it returns
customize_template(prefix_answers, skip_answer) ==
    [prefix |-> prompt_prefix(prefix_answers), skip |-> skip_answer]

\* get_param up to the prompt: the value of passed_value at line 149
get_param_passed(param_name, passed_value, yaml) ==
    IF param_name \in DOMAIN yaml
    THEN IF "name" \in DOMAIN yaml THEN yaml["name"] ELSE KeyError
    ELSE passed_value

\* get_param; prompt_value is what prompt_wf_<param_name> returns when called
get_param(param_name, passed_value, yaml, prompt_value) ==
    LET v == get_param_passed(param_name, passed_value, yaml)
    IN  IF v = None THEN prompt_value ELSE v

\* lines 100-118 of create_param_dict: the entries derived from the resolved values
derive_params(name, description, author, version, yaml) ==
    LET prefix == IF "prefix" \in DOMAIN yaml THEN yaml["prefix"] ELSE CanonicalPrefix
        skip == IF "skip" \in DOMAIN yaml THEN yaml["skip"] ELSE {}
        short_name ==
            replace(replace(replace(lower(name), <<"/", "\\", "s", "+", "/">>, <<"-">>),
                            prefix \o <<"/">>, <<>>),
                    <<"/">>, <<"-">>)
        full_name == prefix \o <<"/">> \o short_name
        name_noslash == replace(full_name, <<"/">>, <<"-">>)
        prefix_nodash == replace(prefix, <<"-">>, <<>>)
    IN  [name |-> full_name,
         description |-> description,
         author |-> author,
         version |-> version,
         prefix |-> prefix,
         skip |-> <<>>,
         ci |-> "ci" \notin skip,
         github_badges |-> "github_badges" \notin skip,
         igenomes |-> "igenomes" \notin skip,
         short_name |-> short_name,
         name_noslash |-> name_noslash,
         prefix_nodash |-> prefix_nodash,
         name_docker |-> replace(full_name, prefix, prefix_nodash),
         logo_light |-> name_noslash \o <<"_logo_light.png">>,
         logo_dark |-> name_noslash \o <<"_logo_dark.png">>,
         branded |-> (prefix = CanonicalPrefix)]

\* the dict create_param_dict returns: it has no entry for outdir
create_param_dict_with_outdir(name, description, author, version, yaml) ==
    ("outdir" :> <<"out/">>) @@ derive_params(name, description, author, version, yaml)
create_param_dict(name, description, author, version, yaml) ==
    derive_params(name, description, author, version, yaml)

\* the answers a prompt is given: none when the prompt is not reached
Asked(needed, answers) == IF needed THEN answers ELSE {<<>>}

\* __init__: create_param_dict with its prompts
Construct ==
    /\ pc = "new"
    /\ LET pre(f) == get_param_passed(f, passed[f], template_yaml)
           \* get_param is called for name, description, author in this order
           reached == [name |-> TRUE,
                       description |-> pre("name") # KeyError,
                       author |-> pre("name") # KeyError /\ pre("description") # KeyError]
           raises == \E f \in ScalarFields : pre(f) = KeyError
       IN
       \E na \in Asked(pre("name") = None, AnswerSeqs({<<"a">>, <<"B">>, <<"a","1">>})),
          da \in Asked(reached.description /\ pre("description") = None, {<<PromptText>>}),
          aa \in Asked(reached.author /\ pre("author") = None, {<<PromptText>>}),
          customize \in (IF ~raises /\ ~template_yaml_path THEN BOOLEAN ELSE {FALSE}) :
       \E pa \in Asked(customize, AnswerSeqs({<<"a">>, <<"1","a">>, CanonicalPrefix})),
          sa \in (IF customize THEN SUBSET Areas ELSE {{}}) :
          LET asked == [name |-> prompt_wf_name(na),
                        description |-> IF da = <<>> THEN None ELSE da[1],
                        author |-> IF aa = <<>> THEN None ELSE aa[1]]
              got == [f \in ScalarFields |->
                         IF reached[f]
                         THEN get_param(f, passed[f], template_yaml, asked[f])
                         ELSE None]
              version == IF "version" \in DOMAIN template_yaml
                         THEN template_yaml["version"] ELSE passed.version
              yaml == IF customize
                      THEN customize_template(pa, sa) @@ template_yaml
                      ELSE template_yaml
          IN  /\ pre("name") = None => asked.name # None
              /\ customize => prompt_prefix(pa) # None
              /\ prompt_ret' = asked
              /\ resolved' = got
              /\ IF raises
                 THEN /\ pc' = "raised"
                      /\ exc' = "KeyError"
                      /\ raised_in' = "get_param"
                      /\ UNCHANGED <<template_yaml, template_params>>
                 ELSE /\ pc' = "constructed"
                      /\ template_yaml' = yaml
                      /\ template_params' =
                            create_param_dict(got.name, got.description, got.author,
                                              version, yaml)
                      /\ UNCHANGED <<exc, raised_in>>
    /\ UNCHANGED <<passed, template_yaml_path, force, outdir_existed, outdir_exists,
                   template_dir, warned, idx, output, ignored, last_kind, fetches>>
    /\ UNCHANGED fetch_vars

---------------------------------------------------------------------------
(* download_pipeline_logo *)

max_attempts == 10
\* upper end of random.randint(1, 100)
randint_max == 100

PngBodies == {"png_A", "png_B"}
Bodies == PngBodies \cup {"html"}

\* what requests.get does: on a connection failure it raises the requests
\* library's ConnectionError (or, from a transport that does not wrap it, the
\* builtin one); otherwise it returns a response
Responses ==
    {[raises |-> e, status_code |-> 0, content |-> "none"] :
        e \in {"requests.exceptions.ConnectionError", "ConnectionError"}}
    \cup {[raises |-> "none", status_code |-> s, content |-> b] :
             s \in {200, 404}, b \in Bodies}

\* the classes an exception is an instance of
ExcBases(e) ==
    CASE e = "requests.exceptions.ConnectionError" ->
            {"requests.exceptions.ConnectionError",
             "requests.exceptions.RequestException", "OSError", "Exception"}
      [] e = "ConnectionError" -> {"ConnectionError", "OSError", "Exception"}
      [] e = "UserWarning" -> {"UserWarning", "Warning", "Exception"}
      [] OTHER -> {e, "Exception"}

\* the try block of the loop: the exception it raises, or "none"
try_fetch(r) ==
    IF r.raises # "none" THEN r.raises
    ELSE IF r.status_code # 200 THEN "UserWarning"
    ELSE "none"

\* except (ConnectionError, UserWarning): the names are Python's builtins
fetch_handler_catches(e) == ExcBases(e) \cap {"ConnectionError", "UserWarning"} # {}

\* imghdr.what on a file holding body
imghdr_what(body) == IF body \in PngBodies THEN "png" ELSE "None"

\* while attempt < max_attempts
loop_continues_off_by_one(a) == a <= max_attempts
loop_continues(a) == a < max_attempts

\* how a call of download_pipeline_logo can end
DownloadResults ==
    {"returned"} \cup {"raised" : r \in {x \in Responses :
                                            /\ try_fetch(x) # "none"
                                            /\ ~fetch_handler_catches(try_fetch(x))}}

FetchCall ==
    /\ fpc = "idle"
    /\ fpc' = "loop"
    /\ attempt' = 0
    /\ retry_delay' = 0
    /\ UNCHANGED <<requests, img_file, nfail, nlogged, succ_body>>
    /\ UNCHANGED run_vars

\* one iteration of the while loop; time.sleep(retry_delay) changes no state
FetchAttempt ==
    /\ fpc = "loop"
    /\ loop_continues(attempt)
    /\ \E r \in Responses, rnd \in 1..randint_max :
          LET e == try_fetch(r)
          IN  /\ attempt' = attempt + 1
              /\ retry_delay' = rnd * (attempt + 1)
              /\ requests' = requests + 1
              /\ IF e # "none"
                 THEN /\ nfail' = nfail + 1
                      /\ UNCHANGED <<img_file, succ_body>>
                      /\ IF fetch_handler_catches(e)
                         THEN /\ nlogged' = nlogged + 1
                              /\ fpc' = "loop"
                         ELSE /\ nlogged' = nlogged
                              /\ fpc' = "raised"
                 ELSE /\ img_file' = r.content
                      /\ IF imghdr_what(r.content) # "png"
                         THEN /\ nfail' = nfail + 1
                              /\ nlogged' = nlogged + 1
                              /\ fpc' = "loop"
                              /\ UNCHANGED succ_body
                         ELSE /\ succ_body' = r.content
                              /\ fpc' = "returned"
                              /\ UNCHANGED <<nfail, nlogged>>
    /\ UNCHANGED run_vars

\* the loop condition fails: the function returns
FetchExit ==
    /\ fpc = "loop"
    /\ ~loop_continues(attempt)
    /\ fpc' = "returned"
    /\ UNCHANGED <<attempt, retry_delay, requests, img_file, nfail, nlogged, succ_body>>
    /\ UNCHANGED run_vars

---------------------------------------------------------------------------
(* render_template *)

\* os.path.join(os.path.dirname(__file__), "pipeline-template"): the package is
\* installed as a directory of site-packages or inside an .egg directory
SitePackagesRoot == <<"/opt/", "nf_core/", "pipeline-template/">>
TemplateRoots ==
    {SitePackagesRoot,
     <<"/opt/", "nf_core-2.0", ".egg", "/nf_core/", "pipeline-template/">>}

\* pathlib.Path(template_dir).glob("**/*")
RecursiveGlob ==
    <<[rel |-> <<".github/", "workflows/", "ci.yml">>, isdir |-> FALSE, mode |-> "0o644"],
      [rel |-> <<"conf">>, isdir |-> TRUE, mode |-> "0o755"],
      [rel |-> <<"conf/", "igenomes.config">>, isdir |-> FALSE, mode |-> "0o644"],
      [rel |-> <<"workflows/", "pipeline.nf">>, isdir |-> FALSE, mode |-> "0o644"],
      [rel |-> <<"lib/", "WorkflowPipeline.groovy">>, isdir |-> FALSE, mode |-> "0o644"],
      [rel |-> <<"bin/", "__pycache__", "/x", ".pyc">>, isdir |-> FALSE, mode |-> "0o644"],
      [rel |-> <<"main.nf">>, isdir |-> FALSE, mode |-> "0o755"]>>
\* pathlib.Path(template_dir).glob("*")
TopGlob ==
    <<[rel |-> <<"conf">>, isdir |-> TRUE, mode |-> "0o755"],
      [rel |-> <<"main.nf">>, isdir |-> FALSE, mode |-> "0o755"]>>
template_files == RecursiveGlob \o TopGlob

ignore_strs == {".pyc", "__pycache__", ".pyo", ".pyd", ".DS_Store", ".egg"}
skippable_paths == [ci |-> <<".github/", "workflows/">>,
                    igenomes |-> <<"conf/", "igenomes.config">>]

\* s in path
in_path(s, path) == \E i \in 1..Len(path) : path[i] = s
\* path.startswith(prefix)
startswith(path, prefix) ==
    Len(prefix) <= Len(path) /\ SubSeq(path, 1, Len(prefix)) = prefix
\* str(template_fn_path_obj): the entry's path with the template directory
template_fn_path_of(dir, e) == dir \o e.rel
\* os.path.relpath(path, start) of a path under start
relpath(path, start) == SubSeq(path, Len(start) + 1, Len(path))

\* the ignore test of line 229
is_ignored(template_fn_path, dir) ==
    \E s \in ignore_strs : in_path(s, template_fn_path)

\* rename_files, built at lines 217-220 from short_name
rename_files(short_name) ==
    (<<"workflows/", "pipeline.nf">> :> (<<"workflows/">> \o short_name \o <<".nf">>))
    @@ (<<"lib/", "WorkflowPipeline.groovy">> :>
           (<<"lib/", "Workflow", upper_char(short_name[1])>> \o Tail(short_name)
            \o <<".groovy">>))

\* output_path of lines 235-237, relative to self.outdir
output_path(template_fn, short_name) ==
    IF template_fn \in DOMAIN rename_files(short_name)
    THEN rename_files(short_name)[template_fn]
    ELSE template_fn

\* how an entry's file behaves: is_file_binary says binary, it renders, the
\* template cannot be decoded, or rendering fails otherwise
Kinds == {"binary", "text", "decode_error", "render_error"}

\* the exception the try block of lines 240-253 raises, or "none"
try_render(kind) ==
    CASE kind = "binary" -> "AttributeError"
      [] kind = "text" -> "none"
      [] kind = "decode_error" -> "UnicodeDecodeError"
      [] kind = "render_error" -> "jinja2.exceptions.TemplateSyntaxError"

\* lines 240-263: what is written, and whether the entry is left by an exception
render_or_copy_no_fallback(kind) ==
    LET e == try_render(kind)
    IN  IF e = "none" THEN [written |-> TRUE, how |-> "rendered"]
        ELSE IF e \in {"AttributeError", "UnicodeDecodeError"}
        THEN [written |-> TRUE, how |-> "copied"]
        ELSE [written |-> FALSE, how |-> "none"]
render_or_copy(kind) ==
    LET e == try_render(kind)
    IN  IF e = "none" THEN [written |-> TRUE, how |-> "rendered"]
        ELSE IF e \in {"AttributeError", "UnicodeDecodeError"}
        THEN [written |-> TRUE, how |-> "copied"]
        ELSE IF "Exception" \in ExcBases(e)
        THEN [written |-> TRUE, how |-> "copied"]
        ELSE [written |-> FALSE, how |-> "none"]

\* the existence check of lines 193-203
check_outdir(exists, forced, params) ==
    IF exists
    THEN IF "outdir" \notin DOMAIN params THEN "KeyError"
         ELSE IF forced THEN "warning" ELSE "exit"
    ELSE "makedirs"

\* render_template up to the walk (lines 190-222)
RenderStart ==
    /\ pc = "constructed"
    /\ LET check == check_outdir(outdir_existed, force, template_params)
       IN  /\ warned' = (check = "warning")
           /\ outdir_exists' = (outdir_exists \/ check = "makedirs")
           /\ IF check = "KeyError"
              THEN /\ pc' = "raised"
                   /\ exc' = "KeyError"
                   /\ raised_in' = "render_template"
                   /\ UNCHANGED idx
              ELSE IF check = "exit"
              THEN /\ pc' = "exit"
                   /\ UNCHANGED <<exc, raised_in, idx>>
              ELSE IF Len(template_params.short_name) = 0
              THEN /\ pc' = "raised"
                   /\ exc' = "IndexError"
                   /\ raised_in' = "render_template"
                   /\ UNCHANGED idx
              ELSE /\ pc' = "walking"
                   /\ idx' = 1
                   /\ UNCHANGED <<exc, raised_in>>
    /\ UNCHANGED <<passed, template_yaml_path, template_yaml, force, outdir_existed,
                   template_dir, resolved, prompt_ret, template_params, output,
                   ignored, last_kind, fetches>>
    /\ UNCHANGED fetch_vars

\* one entry of the loop over template_files (lines 224-267)
ProcessEntry ==
    /\ pc = "walking"
    /\ idx <= Len(template_files)
    /\ LET e == template_files[idx]
           template_fn_path == template_fn_path_of(template_dir, e)
           template_fn == relpath(template_fn_path, template_dir)
           out == output_path(template_fn, template_params.short_name)
       IN  IF e.isdir
           THEN /\ idx' = idx + 1
                /\ last_kind' = "none"
                /\ UNCHANGED <<pc, exc, raised_in, output, ignored>>
           ELSE IF is_ignored(template_fn_path, template_dir)
           THEN /\ idx' = idx + 1
                /\ ignored' = ignored \cup {idx}
                /\ last_kind' = "none"
                /\ UNCHANGED <<pc, exc, raised_in, output>>
           ELSE \E kind \in Kinds :
                   LET r == render_or_copy(kind)
                   IN  \* a file read twice in one run is the same file
                       /\ \A p \in DOMAIN output :
                             output[p].src = template_fn => output[p].how = r.how
                       /\ last_kind' = kind
                       /\ UNCHANGED ignored
                       /\ IF r.written
                          THEN \* os.chmod(output_path, template_stat.st_mode)
                               /\ output' = (out :> [how |-> r.how, src |-> template_fn,
                                                     mode |-> e.mode]) @@ output
                               /\ idx' = idx + 1
                               /\ UNCHANGED <<pc, exc, raised_in>>
                          ELSE /\ pc' = "raised"
                               /\ exc' = try_render(kind)
                               /\ raised_in' = "render_template"
                               /\ UNCHANGED <<output, idx>>
    /\ UNCHANGED <<passed, template_yaml_path, template_yaml, force, outdir_existed,
                   outdir_exists, template_dir, resolved, prompt_ret, template_params,
                   warned, fetches>>
    /\ UNCHANGED fetch_vars

\* the files make_pipeline_logo downloads, in its order, relative to the output directory
logo_targets(params) ==
    <<<<"assets/">> \o params.name_noslash \o <<"_logo_light.png">>,
      <<"docs/", "images/">> \o params.name_noslash \o <<"_logo_dark.png">>,
      <<"docs/", "images/">> \o params.name_noslash \o <<"_logo_light.png">>>>

\* the end of render_template: make_pipeline_logo (lines 269-287)
MakePipelineLogo ==
    /\ pc = "walking"
    /\ idx = Len(template_files) + 1
    /\ IF "outdir" \notin DOMAIN template_params
       THEN \* email_logo_path reads self.template_params['outdir']
            /\ pc' = "raised"
            /\ exc' = "KeyError"
            /\ raised_in' = "make_pipeline_logo"
            /\ UNCHANGED fetches
       ELSE \E results \in [1..3 -> DownloadResults] :
               LET failed == {i \in 1..3 : results[i] = "raised"}
                   n == IF failed = {} THEN 3
                        ELSE CHOOSE i \in failed : \A j \in failed : i <= j
               IN  /\ fetches' = SubSeq(logo_targets(template_params), 1, n)
                   /\ IF failed = {}
                      THEN /\ pc' = "done"
                           /\ UNCHANGED <<exc, raised_in>>
                      ELSE /\ pc' = "raised"
                           /\ exc' = "requests.exceptions.ConnectionError"
                           /\ raised_in' = "download_pipeline_logo"
    /\ UNCHANGED <<passed, template_yaml_path, template_yaml, force, outdir_existed,
                   outdir_exists, template_dir, resolved, prompt_ret, template_params,
                   warned, idx, output, ignored, last_kind>>
    /\ UNCHANGED fetch_vars

---------------------------------------------------------------------------
(* Specifications *)

NoPrompts == [f \in ScalarFields |-> None]

RunAtStart ==
    /\ pc = "new"
    /\ exc = "none"
    /\ raised_in = "none"
    /\ resolved = NoPrompts
    /\ prompt_ret = NoPrompts
    /\ template_params = EmptyDict
    /\ warned = FALSE
    /\ idx = 0
    /\ output = EmptyDict
    /\ ignored = {}
    /\ last_kind = "none"
    /\ fetches = <<>>
    /\ outdir_exists = outdir_existed

FetchAtStart ==
    /\ fpc = "idle"
    /\ attempt = 0
    /\ retry_delay = 0
    /\ requests = 0
    /\ img_file = "absent"
    /\ nfail = 0
    /\ nlogged = 0
    /\ succ_body = "none"

\* a YAML path with one of docs, or no path and the empty dict
YamlChoice(docs) ==
    \/ /\ template_yaml_path = FALSE
       /\ template_yaml = EmptyDict
    \/ /\ template_yaml_path = TRUE
       /\ template_yaml \in docs

\* a whole run: __init__ then render_template
RunNames == {None, <<"a">>, <<"B","1">>}
Init ==
    /\ passed \in [name : RunNames, description : {None, CliText},
                   author : {CliText}, version : {DefaultVersion}]
    /\ YamlChoice(YamlDocsOver({<<"a">>}, {<<"a">>, CanonicalPrefix},
                               {{}, {"ci"}, {"igenomes"}},
                               {"name", "description", "prefix", "skip"}))
    /\ force \in BOOLEAN
    /\ outdir_existed \in BOOLEAN
    /\ template_dir \in TemplateRoots
    /\ RunAtStart
    /\ FetchAtStart

Next ==
    \/ Construct
    \/ RenderStart
    \/ ProcessEntry
    \/ MakePipelineLogo

Spec == Init /\ [][Next]_vars

\* parameter resolution alone, over every argument and document
InitParams ==
    /\ passed \in [name : {None} \cup NameInputs, description : {None, CliText},
                   author : {None, CliText}, version : {DefaultVersion}]
    /\ YamlChoice(YamlDocsOver(YamlNames, PrefixInputs, {{"ci"}}, YamlKeys))
    /\ force = FALSE
    /\ outdir_existed = FALSE
    /\ template_dir = SitePackagesRoot
    /\ RunAtStart
    /\ FetchAtStart

NextParams == Construct

SpecParams == InitParams /\ [][NextParams]_vars

\* one call of download_pipeline_logo
InitFetch ==
    /\ passed = [name |-> <<"a">>, description |-> CliText, author |-> CliText,
                 version |-> DefaultVersion]
    /\ template_yaml_path = FALSE
    /\ template_yaml = EmptyDict
    /\ force = FALSE
    /\ outdir_existed = FALSE
    /\ template_dir = SitePackagesRoot
    /\ RunAtStart
    /\ FetchAtStart

NextFetch ==
    \/ FetchCall
    \/ FetchAttempt
    \/ FetchExit

SpecFetch == InitFetch /\ [][NextFetch]_vars

---------------------------------------------------------------------------
(* Properties *)

TemplateIndices == 1..Len(template_files)
WalkComplete == idx = Len(template_files) + 1
WrittenSources == {output[p].src : p \in DOMAIN output}
ParamsResolved == "branded" \in DOMAIN template_params

\* C1: a disabled feature area's path is never written to the output tree, and
\* once the walk is complete every template file of an enabled area is written.
C1_SkippedAreaAbsent ==
    ParamsResolved =>
        \A area \in DOMAIN skippable_paths :
            IF ~template_params[area]
            THEN \A src \in WrittenSources : ~startswith(src, skippable_paths[area])
            ELSE WalkComplete =>
                    \A i \in TemplateIndices :
                        (/\ ~template_files[i].isdir
                         /\ startswith(template_files[i].rel, skippable_paths[area]))
                        => template_files[i].rel \in WrittenSources

\* what the resolution order of C2 gives for field f
C2_Expected(f) ==
    IF f \in DOMAIN template_yaml THEN template_yaml[f]
    ELSE IF passed[f] # None THEN passed[f]
    ELSE prompt_ret[f]
\* C2: for name, description and author get_param returns the YAML document's
\* value of that field when the document defines it, else the passed value when
\* there is one, else what the field's prompt returned; no combination of
\* defined fields makes it fail.
C2_ResolutionOrder ==
    pc # "new" =>
        /\ pc = "constructed"
        /\ \A f \in ScalarFields : resolved[f] = C2_Expected(f)

\* render_template has run its existence check
C3_Started == pc \notin {"new", "constructed"} /\ raised_in # "get_param"
\* C3: when the output directory exists, render_template exits with status 1
\* before writing anything unless force is set, in which case it logs a warning
\* and goes on to the template files; when it does not exist it is created and
\* the run goes on.
C3_OutdirPolicy ==
    C3_Started =>
        /\ (outdir_existed /\ ~force) => (pc = "exit" /\ DOMAIN output = {})
        /\ (outdir_existed /\ force) => (warned /\ idx >= 1)
        /\ ~outdir_existed => (outdir_exists /\ idx >= 1)

\* C4: no exception escapes download_pipeline_logo: every failing attempt is
\* logged and followed by the next one, and the call returns after the 10th.
C4_NoExceptionEscapes ==
    /\ fpc # "raised"
    /\ nlogged = nfail
    /\ (fpc = "returned" /\ succ_body = "none") => nfail = max_attempts

\* C5: the loop issues one request per attempt, at most 10; after N failures by
\* status code or non-PNG body and one success it has issued N+1 requests, it
\* has stopped, and the file holds the successful body; when every attempt
\* fails it has issued exactly 10.
C5_RequestCount ==
    /\ requests = attempt
    /\ attempt <= max_attempts
    /\ succ_body # "none" =>
          /\ fpc = "returned"
          /\ requests = nfail + 1
          /\ img_file = succ_body
    /\ (fpc = "returned" /\ succ_body = "none") =>
          /\ requests = max_attempts
          /\ nfail = max_attempts
C5_Witness ==
    /\ fpc = "returned"
    /\ succ_body = "png_B"
    /\ nfail = 3
    /\ requests = 4

\* C6: once the walk has processed every template file, make_pipeline_logo
\* calls download_pipeline_logo for its three files in order and
\* render_template returns normally.
C6_LogoAcquisition ==
    (WalkComplete /\ pc # "walking") =>
        /\ pc = "done"
        /\ fetches = logo_targets(template_params)

C8_PatternInvariants ==
    pc = "constructed" =>
        /\ match_wf_name(template_params.short_name)
        /\ match_prefix(template_params.prefix)

\* entry i is a file the ignore filter lets through, and its output path
C9_Passes(i) ==
    /\ ~template_files[i].isdir
    /\ ~is_ignored(template_fn_path_of(template_dir, template_files[i]), template_dir)
C9_Out(i) == output_path(template_files[i].rel, template_params.short_name)
\* C9: every entry that passes the filters ends with a file at its output path
\* carrying the source's permission bits, rendered when the file is text and
\* copied when it is binary or when rendering fails in any way, and the walk
\* goes on to the next entry.
C9_EveryEntryWritten ==
    /\ (pc = "raised" /\ raised_in = "render_template") => idx = 0
    /\ \A i \in TemplateIndices :
          (i < idx /\ C9_Passes(i)) =>
              /\ C9_Out(i) \in DOMAIN output
              /\ output[C9_Out(i)].src = template_files[i].rel
              /\ output[C9_Out(i)].mode = template_files[i].mode
              /\ (i = idx - 1) =>
                    output[C9_Out(i)].how =
                        (IF last_kind = "text" THEN "rendered" ELSE "copied")
C9_Witness ==
    /\ pc = "walking"
    /\ idx = 5
    /\ C9_Passes(4)
    /\ last_kind = "render_error"
    /\ output[C9_Out(4)].how = "copied"
    /\ output[C9_Out(1)].how = "rendered"

\* the template-relative path of entry i contains a marker
C10_MarkerInRelativePath(i) ==
    \E s \in ignore_strs : in_path(s, template_files[i].rel)
\* C10: an entry is skipped by the ignore filter exactly when its path relative
\* to the template directory contains one of the markers, wherever the template
\* directory is.
C10_IgnoreIsRelative ==
    \A i \in TemplateIndices :
        (i < idx /\ ~template_files[i].isdir) =>
            (i \in ignored <=> C10_MarkerInRelativePath(i))

====
